---- MODULE Spec2Model ----
(***************************************************************************)
(* Model of errapids: the index parsing of metrics.Metrics, and the        *)
(* scenario marginalisation and plot management of errapids.viz.           *)
(*                                                                         *)
(* Strings the code inspects (substring, prefix, split) are sequences of   *)
(* one-character strings, so that "in", str.startswith and str.split are   *)
(* computed.  Strings the code only compares are TLA+ strings.             *)
(***************************************************************************)
EXTENDS Integers, Sequences, FiniteSets, TLC

VARIABLES
    pc,        \* position of the driver: "start", "called", "ready"
    idxIn,     \* the index handed to Metrics.__idx__
    idxOut,    \* what Metrics.__idx__ returned, or the exception it raised
    df,        \* the dataframe handed to marginalise / scenario_deltas
    call,      \* the call made on df: function name and arguments
    ret,       \* what that call returned, or the exception it raised
    dfs,       \* plotmanager._dfs: metric name -> table
    dfs0,      \* history: _dfs as __init__ left it
    lastPlot,  \* what the last plotmanager.plot call returned
    files      \* the files hv.save has written so far

vars == <<pc, idxIn, idxOut, df, call, ret, dfs, dfs0, lastPlot, files>>

None == [kind |-> "None"]
NaN == <<"NaN">>

Max(S) == CHOOSE x \in S : \A y \in S : y <= x
Min(S) == CHOOSE x \in S : \A y \in S : x <= y
Abs(x) == IF x < 0 THEN -x ELSE x
Range(s) == {s[i] : i \in 1..Len(s)}

\* All sequences over S of length lo..hi.
SeqsOf(S, lo, hi) == UNION {[1..n -> S] : n \in lo..hi}

(***************************************************************************)
(* Python string primitives.                                               *)
(***************************************************************************)

\* sub in s
Contains(sub, s) ==
    \E i \in 0..(Len(s) - Len(sub)) : SubSeq(s, i + 1, i + Len(sub)) = sub

\* s.startswith(token)
StartsWith(s, token) ==
    Len(token) <= Len(s) /\ SubSeq(s, 1, Len(token)) = token

\* s.endswith(token)
EndsWith(s, token) ==
    Len(token) <= Len(s) /\ SubSeq(s, Len(s) - Len(token) + 1, Len(s)) = token

\* s.split(sep): left-to-right, non-overlapping; cur is the part being read.
RECURSIVE SplitFrom(_, _, _)
SplitFrom(s, sep, cur) ==
    IF s = <<>> THEN <<cur>>
    ELSE IF StartsWith(s, sep)
         THEN <<cur>> \o SplitFrom(SubSeq(s, Len(sep) + 1, Len(s)), sep, <<>>)
         ELSE SplitFrom(Tail(s), sep, Append(cur, Head(s)))

StrSplitSingleColon(s, sep) == SplitFrom(s, <<":">>, <<>>)

StrSplit(s, sep) == SplitFrom(s, sep, <<>>)

(***************************************************************************)
(* Names the code looks for.                                               *)
(***************************************************************************)
S_carriers == <<"c","a","r","r","i","e","r","s">>
S_carrier == <<"c","a","r","r","i","e","r">>
S_techs == <<"t","e","c","h","s">>
S_loc_tech == <<"l","o","c","_","t","e","c","h">>
S_costs == <<"c","o","s","t","s">>
S_loc_techs == S_loc_tech \o <<"s">>
S_loc_tech_carriers == S_loc_tech \o <<"_">> \o S_carriers
S_loc_carriers == <<"l","o","c","_">> \o S_carriers
S_region == <<"r","e","g","i","o","n">>
S_technology == <<"t","e","c","h","n","o","l","o","g","y">>
ColonColon == <<":", ":">>

(***************************************************************************)
(* metrics.Metrics.__idx__                                                 *)
(*                                                                         *)
(* An Index is [kind |-> "Index", name, values]; a MultiIndex is           *)
(* [kind |-> "MultiIndex", names, rows], rows being tuples with one entry  *)
(* per level.  A raised exception is [kind |-> "ValueError"].              *)
(***************************************************************************)
ValueError == [kind |-> "ValueError"]

Index(name, values) == [kind |-> "Index", name |-> name, values |-> values]
MultiIndex(names, rows) == [kind |-> "MultiIndex", names |-> names, rows |-> rows]

NLevels(idx) == IF idx.kind = "MultiIndex" THEN Len(idx.names) ELSE 1
NRows(idx) == IF idx.kind = "MultiIndex" THEN Len(idx.rows) ELSE Len(idx.values)

\* list.index(x): the first position of x (0-based), for x in names.
ListIndex(names, x) == Min({i \in 1..Len(names) : names[i] = x}) - 1

SwaplevelIdentity(rows) == rows

\* MultiIndex.swaplevel(): exchanges the last two levels (i=-2, j=-1).
Swaplevel(rows) ==
    [r \in 1..Len(rows) |->
        LET t == rows[r] n == Len(rows[r])
        IN [k \in 1..n |-> IF k = n - 1 THEN t[n] ELSE IF k = n THEN t[n - 1] ELSE t[k]]]

\* A row of k entries: the parts, then missing values.
PadRow(parts, k) == [j \in 1..k |-> IF j <= Len(parts) THEN parts[j] ELSE NaN]

\* MultiIndex.from_tuples(rows): as many levels as the longest row has
\* entries; a one-level result is returned as an Index.
FromTuples(rows) ==
    LET k == Max({Len(rows[i]) : i \in 1..Len(rows)})
    IN IF k = 1
       THEN Index(None, [i \in 1..Len(rows) |-> rows[i][1]])
       ELSE MultiIndex([j \in 1..k |-> None],
                       [i \in 1..Len(rows) |-> PadRow(rows[i], k)])

\* Index.str.split(sep, expand=True)
StrSplitExpand(values, sep) ==
    FromTuples([i \in 1..Len(values) |-> StrSplit(values[i], sep)])

\* Assigning idx.names: ValueError unless one name per level.
SetNames(idx, names) ==
    IF idx.kind = "MultiIndex" /\ Len(names) = Len(idx.names)
    THEN MultiIndex(names, idx.rows)
    ELSE ValueError

ConcatNamesCarrierFirst(withCarrier) ==
    IF withCarrier THEN <<S_carrier, S_region, S_technology>>
    ELSE <<S_technology, S_region>>

\* The level names given to a split loc_tech[_carrier] index.
ConcatNames(withCarrier) ==
    IF withCarrier THEN <<S_region, S_technology, S_carrier>>
    ELSE <<S_region, S_technology>>

ForceNames(idx, names) ==
    IF idx.kind = "MultiIndex" THEN MultiIndex(names, idx.rows) ELSE Index(names[1], idx.values)

\* Lines 81-91: the split index gets its names if it has the expected
\* number of levels, and is rejected otherwise.
NameSplit(idx, withCarrier) ==
    IF withCarrier
    THEN IF NLevels(idx) = 3 THEN SetNames(idx, ConcatNames(TRUE)) ELSE ValueError
    ELSE IF NLevels(idx) = 2 THEN SetNames(idx, ConcatNames(FALSE)) ELSE ValueError

Metrics_idx_unchecked(_idx) ==
    IF _idx.kind = "MultiIndex"
    THEN MultiIndex(<<S_technology, S_carrier>>, _idx.rows)
    ELSE IF _idx.name = S_carriers
    THEN Index(S_carrier, _idx.values)
    ELSE ForceNames(StrSplitExpand(_idx.values, ColonColon),
                    ConcatNames(Contains(S_carrier, _idx.name)))

Metrics_idx(_idx) ==
    IF _idx.kind = "MultiIndex"
    THEN IF S_carriers \notin Range(_idx.names) \/ S_techs \notin Range(_idx.names)
         THEN ValueError  \* list.index raises
         ELSE SetNames(
                IF ListIndex(_idx.names, S_carriers) < ListIndex(_idx.names, S_techs)
                THEN MultiIndex(_idx.names, Swaplevel(_idx.rows))
                ELSE _idx,
                <<S_technology, S_carrier>>)
    ELSE IF _idx.name = S_carriers
    THEN Index(S_carrier, _idx.values)
    ELSE IF ~Contains(S_loc_tech, _idx.name)
    THEN ValueError
    ELSE NameSplit(StrSplitExpand(_idx.values, ColonColon), Contains(S_carrier, _idx.name))

(***************************************************************************)
(* The indexes handed to Metrics.__idx__.                                  *)
(***************************************************************************)
MaxParts == 4
MaxRows == 2

\* "::".join(parts)
RECURSIVE Join(_)
Join(parts) ==
    IF Len(parts) = 1 THEN parts[1]
    ELSE parts[1] \o ColonColon \o Join(Tail(parts))

\* A part is empty or a word; "w" stands for a run of other characters.
Parts == {<<>>, <<"w">>}
PartSeqs == SeqsOf(Parts, 1, MaxParts)

\* Concatenated labels such as "DEU::wind::power".
Labels == {Join(ps) : ps \in PartSeqs}

\* Labels of the indexes that are not concatenated (their text is not parsed).
PlainLabels == {Join(<<<<"w">>>>), Join(<<<<"w">>, <<"w">>>>)}

ConcatIndexNames == {S_loc_techs, S_loc_tech_carriers}
PlainIndexNames == {S_carriers, S_loc_carriers}

LabelsOf(name) == IF name \in ConcatIndexNames THEN Labels ELSE PlainLabels

LevelNameSeqs ==
    {<<S_carriers, S_techs>>, <<S_techs, S_carriers>>, <<S_techs, S_costs>>,
     <<S_costs, S_carriers, S_techs>>, <<S_carriers, S_techs, S_costs>>}

LevelValues(n) ==
    IF n = S_carriers THEN {"power", "heat"}
    ELSE IF n = S_techs THEN {"wind", "boiler"}
    ELSE {"monetary"}

MultiIndexes ==
    UNION {
        {MultiIndex(ns, rows) :
            rows \in SeqsOf({t \in [1..Len(ns) -> {"power", "heat", "wind", "boiler", "monetary"}] :
                                \A k \in 1..Len(ns) : t[k] \in LevelValues(ns[k])},
                            1, MaxRows)}
        : ns \in LevelNameSeqs}

InitIdx ==
    /\ pc = "start"
    /\ idxIn = None
    /\ idxOut = None
    /\ df = None /\ call = None /\ ret = None
    /\ dfs = None /\ dfs0 = None /\ lastPlot = None /\ files = {}

\* Metrics.__getitem__, lines 60-61: arr.index = self.__idx__(arr.index)
CallIdxSingle ==
    /\ pc = "start"
    /\ \E name \in ConcatIndexNames \cup PlainIndexNames, n \in 1..MaxRows :
        \E values \in [1..n -> LabelsOf(name)] :
            /\ idxIn' = Index(name, values)
            /\ idxOut' = Metrics_idx(Index(name, values))
    /\ pc' = "called"
    /\ UNCHANGED <<df, call, ret, dfs, dfs0, lastPlot, files>>

\* The same after arr.stack() (line 54) has made a MultiIndex.
CallIdxMulti ==
    /\ pc = "start"
    /\ \E i \in MultiIndexes :
        /\ idxIn' = i
        /\ idxOut' = Metrics_idx(i)
    /\ pc' = "called"
    /\ UNCHANGED <<df, call, ret, dfs, dfs0, lastPlot, files>>

NextIdx == CallIdxSingle \/ CallIdxMulti

SpecIdx == InitIdx /\ [][NextIdx]_vars

(***************************************************************************)
(* errapids.viz: dataframes.                                               *)
(*                                                                         *)
(* A DataFrame is [kind |-> "DataFrame", names, cols, rows]: names are the *)
(* index level names in order, cols the column names, rows a sequence of   *)
(* [idx, val], idx a tuple with one entry per level and val a tuple with   *)
(* one entry per column.  A Series is [kind |-> "Series", index, values].  *)
(* Numbers are integers in units of 1e-9; a float that may be missing is   *)
(* [nan, v].                                                               *)
(***************************************************************************)
DataFrame(names, cols, rows) ==
    [kind |-> "DataFrame", names |-> names, cols |-> cols, rows |-> rows]
Series(index, values) == [kind |-> "Series", index |-> index, values |-> values]
KeyError == [kind |-> "KeyError"]

Num(v) == [nan |-> FALSE, v |-> v]
NaNNum == [nan |-> TRUE, v |-> 0]

\* technology names
T_ac_transmission == <<"a","c","_","t","r","a","n","s","m","i","s","s","i","o","n">>
T_ac_line == T_ac_transmission \o <<":","D","N","K">>
T_wind == <<"w","i","n","d">>

\* viz.py lines 30-38, in the dict's order
ScenarioNames == <<"heating", "EV", "PV", "battery", "demand", "cost", "all">>

\* baselines[scenario] of a regular scenario; only read where ~IsGrouped
BaselineValue(sc) ==
    CASE sc = "heating" -> "mid"
      [] sc = "EV" -> "low"
      [] sc = "PV" -> 100
      [] sc = "battery" -> 100

\* baselines[scenario] of a grouped scenario: the scenarios it pins
BaselineList(sc) ==
    CASE sc = "demand" -> <<"PV", "battery">>
      [] sc = "cost" -> <<"heating", "EV">>
      [] sc = "all" -> <<>>

IsGrouped(scenario) == scenario \in {"demand", "cost", "all"}

\* [x for x in seq if Keep(x)], order kept
RECURSIVE SelectIdx(_, _)
SelectIdx(seq, keep) ==
    IF seq = <<>> THEN <<>>
    ELSE (IF keep[1] THEN <<Head(seq)>> ELSE <<>>) \o SelectIdx(Tail(seq), Tail(keep))

LevelPos(names, lvl) == CHOOSE i \in 1..Len(names) : names[i] = lvl

\* df.index.get_level_values(lvl)
GetLevelValues(frame, lvl) ==
    [i \in 1..Len(frame.rows) |-> frame.rows[i].idx[LevelPos(frame.names, lvl)]]

\* df[mask]
Mask(frame, mask) == DataFrame(frame.names, frame.cols, SelectIdx(frame.rows, mask))

Lvl_filter_ignoring_invert(frame, lvl, token, invert, reverse) ==
    Mask(frame, [i \in 1..Len(frame.rows) |->
                    StartsWith(frame.rows[i].idx[LevelPos(frame.names, lvl)], token)])

\* viz.py lines 66-95
Lvl_filter(frame, lvl, token, invert, reverse) ==
    Mask(frame,
         [i \in 1..Len(frame.rows) |->
            LET v == frame.rows[i].idx[LevelPos(frame.names, lvl)]
                sel == IF reverse THEN EndsWith(v, token) ELSE StartsWith(v, token)
            IN IF invert THEN ~sel ELSE sel])

\* the positions of seq whose entry is not in drop, in order
KeptPos(names, drop) == SelectIdx([i \in 1..Len(names) |-> i],
                                  [i \in 1..Len(names) |-> names[i] \notin drop])

Pick(t, pos) == [k \in 1..Len(pos) |-> t[pos[k]]]

\* df.index = df.index.droplevel(lvls)
DropLevels(frame, lvls) ==
    DataFrame(Pick(frame.names, KeptPos(frame.names, lvls)), frame.cols,
              [i \in 1..Len(frame.rows) |->
                  [idx |-> Pick(frame.rows[i].idx, KeptPos(frame.names, lvls)),
                   val |-> frame.rows[i].val]])

\* df.query("sc1 == base1 & sc2 == base2 ...")
QueryPins(frame, pins) ==
    Mask(frame, [i \in 1..Len(frame.rows) |->
                    \A k \in 1..Len(pins) :
                        frame.rows[i].idx[LevelPos(frame.names, pins[k])] = BaselineValue(pins[k])])

PinsAllRegular(scenario) == <<"heating", "EV", "PV", "battery">>

\* viz.py lines 125-129
Pins(scenario) ==
    IF IsGrouped(scenario)
    THEN BaselineList(scenario)
    ELSE SelectIdx(ScenarioNames,
                   [i \in 1..Len(ScenarioNames) |->
                      ScenarioNames[i] # scenario /\ ~IsGrouped(ScenarioNames[i])])

\* the scenarios behind viz.py lines 135-137
Swept(scenario) ==
    SelectIdx(ScenarioNames,
              [i \in 1..Len(ScenarioNames) |->
                 ScenarioNames[i] \notin Range(Pins(scenario)) /\ ~IsGrouped(ScenarioNames[i])])

\* viz.py lines 135-137
Unpinned(scenario) ==
    [k \in 1..Len(Swept(scenario)) |-> BaselineValue(Swept(scenario)[k])]

\* Sort order of the labels of the other index levels.
RegionOrder == <<"DEU", "DNK">>
TechOrder == <<T_ac_line, T_wind>>
CarrierOrder == <<"power">>
RankIn(order, v) == CHOOSE i \in 1..Len(order) : order[i] = v
Rank(lvl, v) ==
    CASE lvl = "region" -> RankIn(RegionOrder, v)
      [] lvl = "technology" -> RankIn(TechOrder, v)
      [] lvl = "carrier" -> RankIn(CarrierOrder, v)

\* a < b, lexicographically, for index tuples over the levels names
RECURSIVE KeyLess(_, _, _)
KeyLess(names, a, b) ==
    IF names = <<>> THEN FALSE
    ELSE IF Rank(names[1], a[1]) # Rank(names[1], b[1])
         THEN Rank(names[1], a[1]) < Rank(names[1], b[1])
         ELSE KeyLess(Tail(names), Tail(a), Tail(b))

\* sorted(keys)
RECURSIVE SortKeys(_, _)
SortKeys(names, keys) ==
    IF keys = {} THEN <<>>
    ELSE LET m == CHOOSE k \in keys : \A o \in keys \ {k} : KeyLess(names, k, o)
         IN <<m>> \o SortKeys(names, keys \ {m})

\* The cells of df.unstack(list(range(n))): for every remaining index tuple
\* (sorted) the value at every combination of the first n levels that occurs
\* in df, missing where df has no such row.
UnstackKeys(frame, n) ==
    SortKeys(SubSeq(frame.names, n + 1, Len(frame.names)),
             {SubSeq(frame.rows[i].idx, n + 1, Len(frame.names)) : i \in 1..Len(frame.rows)})
UnstackCols(frame, n) == {SubSeq(frame.rows[i].idx, 1, n) : i \in 1..Len(frame.rows)}
UnstackCell(frame, n, key, col) ==
    LET hits == {i \in 1..Len(frame.rows) :
                    /\ SubSeq(frame.rows[i].idx, 1, n) = col
                    /\ SubSeq(frame.rows[i].idx, n + 1, Len(frame.names)) = key}
    IN IF hits = {} THEN NaNNum ELSE Num(frame.rows[CHOOSE i \in hits : TRUE].val[1])

\* np.min / np.max of a row of cells: missing values are skipped
RowMin(cells) ==
    IF \A c \in cells : c.nan THEN NaNNum ELSE Num(Min({c.v : c \in {d \in cells : ~d.nan}}))
RowMax(cells) ==
    IF \A c \in cells : c.nan THEN NaNNum ELSE Num(Max({c.v : c \in {d \in cells : ~d.nan}}))

DeltaSigned(extreme, baseline) ==
    IF extreme.nan \/ baseline.nan THEN NaNNum ELSE Num(extreme.v - baseline.v)

\* (f(row) - baseline).abs()
Delta(extreme, baseline) ==
    IF extreme.nan \/ baseline.nan THEN NaNNum ELSE Num(Abs(extreme.v - baseline.v))

\* baseline, errlo, errhi of one unstacked row
Band(cells, baseline) ==
    <<baseline, Delta(RowMin(cells), baseline), Delta(RowMax(cells), baseline)>>

\* viz.py lines 139-148: keys and cols are the rows and columns of the
\* unstacked frame
BandsAt(frame, colname, unpinned, keys, cols) ==
    IF unpinned \notin cols
    THEN KeyError
    ELSE IF Len(frame.names) > Len(unpinned)
    THEN DataFrame(SubSeq(frame.names, Len(unpinned) + 1, Len(frame.names)),
                   <<colname, "errlo", "errhi">>,
                   [k \in 1..Len(keys) |->
                       [idx |-> keys[k],
                        val |-> Band({UnstackCell(frame, Len(unpinned), keys[k], c) : c \in cols},
                                     UnstackCell(frame, Len(unpinned), keys[k], unpinned))]])
    ELSE Series(<<colname, "errlo", "errhi">>,
                Band({UnstackCell(frame, Len(unpinned), <<>>, c) : c \in cols},
                     UnstackCell(frame, Len(unpinned), <<>>, unpinned)))

\* viz.py lines 135-148, on the pinned frame
Bands(frame, colname, unpinned) ==
    BandsAt(frame, colname, unpinned,
            UnstackKeys(frame, Len(unpinned)), UnstackCols(frame, Len(unpinned)))

\* viz.py lines 130-133
Pinned(frame, pins) ==
    IF pins # <<>> THEN DropLevels(QueryPins(frame, pins), Range(pins)) ELSE frame

\* viz.py lines 98-148
Marginalise(frame, scenario) ==
    IF scenario \notin Range(ScenarioNames)
    THEN ValueError
    ELSE Bands(Pinned(frame, Pins(scenario)), frame.cols[1], Unpinned(scenario))

IsCloseExact(x) == ~x.nan /\ x.v = 0

\* np.isclose(x, 0): |x| <= atol = 1e-8, i.e. 10 units; never for a missing x
IsClose(x) == ~x.nan /\ Abs(x.v) <= 10

\* viz.py line 182
IsNull(val) == \A k \in 1..Len(val) : IsClose(val[k])

ScenarioPos(sc) == CHOOSE i \in 1..Len(ScenarioNames) : ScenarioNames[i] = sc

\* (key..., scenario) a before b: by the key's sort order, then by the
\* scenario's place in baselines
TaggedLess(names, a, b) ==
    LET n == Len(names) - 1
    IN IF SubSeq(a, 1, n) # SubSeq(b, 1, n)
       THEN KeyLess(SubSeq(names, 1, n), SubSeq(a, 1, n), SubSeq(b, 1, n))
       ELSE ScenarioPos(a[n + 1]) < ScenarioPos(b[n + 1])

RECURSIVE SortTagged(_, _)
SortTagged(names, rows) ==
    IF rows = {} THEN <<>>
    ELSE LET m == CHOOSE r \in rows : \A o \in rows \ {r} : TaggedLess(names, r.idx, o.idx)
         IN <<m>> \o SortTagged(names, rows \ {m})

\* df.reindex(index=list(baselines)[, level="scenario"]): the rows in the
\* order of their keys and, within a key, of baselines
ReindexScenario(frame) ==
    DataFrame(frame.names, frame.cols, SortTagged(frame.names, Range(frame.rows)))

\* viz.py lines 183-185: .assign(scenario=scenario).set_index("scenario", append=True)
AssignScenario(names, cols, rows, scenario) ==
    DataFrame(Append(names, "scenario"), cols,
              [i \in 1..Len(rows) |->
                  [idx |-> Append(rows[i].idx, scenario), val |-> rows[i].val]])

\* viz.py lines 181-187: one scenario's rows, with the scenario as a level
Tagged(m, scenario) ==
    IF m.kind = "DataFrame"
    THEN AssignScenario(m.names, m.cols,
                        SelectIdx(m.rows, [j \in 1..Len(m.rows) |-> ~IsNull(m.rows[j].val)]),
                        scenario)
    ELSE DataFrame(<<"scenario">>, m.index, <<[idx |-> <<scenario>>, val |-> m.values]>>)

RECURSIVE ConcatRows(_)
ConcatRows(frames) ==
    IF frames = <<>> THEN <<>> ELSE Head(frames).rows \o ConcatRows(Tail(frames))

\* viz.py lines 178-193: ms[k] is marginalise(df, scenario k)
DeltasFrom(frame, ms) ==
    IF \E k \in 1..Len(ms) : ms[k].kind \notin {"DataFrame", "Series"}
    THEN KeyError
    ELSE ReindexScenario(
            DataFrame(IF Len(frame.names) > 4
                      THEN Append(SubSeq(frame.names, 5, Len(frame.names)), "scenario")
                      ELSE <<"scenario">>,
                      <<frame.cols[1], "errlo", "errhi">>,
                      ConcatRows([k \in 1..Len(ms) |-> Tagged(ms[k], ScenarioNames[k])])))

\* viz.py lines 178-193, on the selected frame
DeltasOf(frame) ==
    DeltasFrom(frame, [k \in 1..Len(ScenarioNames) |-> Marginalise(frame, ScenarioNames[k])])

\* viz.py lines 173-174
WithoutCarrier(frame) ==
    IF "carrier" \in Range(frame.names) THEN DropLevels(frame, {"carrier"}) ELSE frame

\* viz.py lines 171-193
DeltasOfSelected(frame) ==
    IF frame.rows = <<>> THEN ValueError ELSE DeltasOf(WithoutCarrier(frame))

\* viz.py lines 169-170
Selected(frame, istransmission) ==
    IF "technology" \in Range(frame.names)
    THEN Lvl_filter(frame, "technology", T_ac_transmission, ~istransmission, FALSE)
    ELSE frame

\* viz.py lines 151-193
Scenario_deltas(frame, istransmission) == DeltasOfSelected(Selected(frame, istransmission))

(***************************************************************************)
(* The dataframes handed to marginalise and scenario_deltas: one metric    *)
(* column, indexed by the four scenario levels and then by the metric's    *)
(* own levels, as ScenarioGroups.__getitem__ (metrics.py lines 137-150)    *)
(* builds them: the same rows for every scenario run, the baseline run     *)
(* among them.                                                             *)
(***************************************************************************)
MaxExtraRuns == 2

BaselineRun == <<"mid", "low", 100, 100>>

\* runs other than the baseline run
OtherRuns ==
    {<<"high", "low", 100, 100>>, <<"mid", "high", 100, 100>>, <<"high", "high", 100, 100>>,
     <<"mid", "low", 50, 100>>, <<"mid", "low", 100, 50>>, <<"high", "high", 50, 50>>}

RunOrder ==
    <<BaselineRun,
      <<"high", "low", 100, 100>>, <<"mid", "high", 100, 100>>, <<"high", "high", 100, 100>>,
      <<"mid", "low", 50, 100>>, <<"mid", "low", 100, 50>>, <<"high", "high", 50, 50>>>>

RunSeqs ==
    {SelectIdx(RunOrder, [i \in 1..Len(RunOrder) |-> RunOrder[i] = BaselineRun \/ RunOrder[i] \in X]) :
        X \in {Y \in SUBSET OtherRuns : Cardinality(Y) <= MaxExtraRuns}}

\* the metric's own index: level names and rows
Shapes ==
    {[names |-> <<>>, keys |-> << <<>> >>],
     [names |-> <<"carrier">>, keys |-> << <<"power">> >>],
     [names |-> <<"technology">>, keys |-> << <<T_wind>> >>],
     [names |-> <<"technology">>, keys |-> << <<T_ac_line>> >>],
     [names |-> <<"region", "technology", "carrier">>,
      keys |-> << <<"DNK", T_wind, "power">>, <<"DEU", T_ac_line, "power">> >>]}

\* metric values, in units of 1e-9: zero, within np.isclose's tolerance of
\* zero, and beyond it; two-row frames leave the middle one out
Vals == {0, 5, 40}
ValsOf(shape) == IF Len(shape.keys) > 1 THEN Vals \ {5} ELSE Vals

\* pd.concat of one frame per run, lines 138-146 of metrics.py
FrameOf(shape, runs, v) ==
    DataFrame(<<"heating", "EV", "PV", "battery">> \o shape.names, <<"m">>,
              [i \in 1..(Len(runs) * Len(shape.keys)) |->
                 LET r == ((i - 1) \div Len(shape.keys)) + 1
                     k == ((i - 1) % Len(shape.keys)) + 1
                 IN [idx |-> runs[r] \o shape.keys[k], val |-> <<v[i]>>]])

InitViz ==
    /\ pc = "start"
    /\ idxIn = None /\ idxOut = None
    /\ \E shape \in Shapes, runs \in RunSeqs :
         \E v \in [1..(Len(runs) * Len(shape.keys)) -> ValsOf(shape)] :
            df = FrameOf(shape, runs, v)
    /\ call = None /\ ret = None
    /\ dfs = None /\ dfs0 = None /\ lastPlot = None /\ files = {}

CallMarginalise ==
    /\ pc = "start"
    /\ \E scenario \in Range(ScenarioNames) \cup {"supply"} :
        /\ call' = [fn |-> "marginalise", scenario |-> scenario]
        /\ ret' = Marginalise(df, scenario)
    /\ pc' = "called"
    /\ UNCHANGED <<idxIn, idxOut, df, dfs, dfs0, lastPlot, files>>

CallScenarioDeltas ==
    /\ pc = "start"
    /\ \E istransmission \in BOOLEAN :
        /\ call' = [fn |-> "scenario_deltas", istransmission |-> istransmission]
        /\ ret' = Scenario_deltas(df, istransmission)
    /\ pc' = "called"
    /\ UNCHANGED <<idxIn, idxOut, df, dfs, dfs0, lastPlot, files>>

NextViz == CallMarginalise \/ CallScenarioDeltas

SpecViz == InitViz /\ [][NextViz]_vars

(***************************************************************************)
(* errapids.viz: facets, layout and plotmanager.                           *)
(*                                                                         *)
(* plotmanager._dfs is a sequence of [metric, table] in the dict's order.  *)
(* A plot element is the record of the data and options it is built from.  *)
(* An aggregate that is a square root (qsum) is rounded down to the unit.  *)
(***************************************************************************)
AttributeError == [kind |-> "AttributeError"]
IsError(x) == x.kind \in {"ValueError", "KeyError", "AttributeError"}

\* viz.py lines 19-28, in the dict's order
RegionGroups == <<"nordic", "baltic", "poland", "west", "med", "isles", "balkan", "landlocked">>
Rgroups(region) ==
    CASE region = "nordic" -> {"DNK", "FIN", "NOR", "SWE"}
      [] region = "baltic" -> {"EST", "LTU", "LVA"}
      [] region = "poland" -> {"POL"}
      [] region = "west" -> {"DEU", "FRA", "NLD", "LUX"}
      [] region = "med" -> {"ESP", "ITA", "GRC", "PRT"}
      [] region = "isles" -> {"GBR", "IRL"}
      [] region = "balkan" -> {"MKD", "ROU", "SRB", "SVN", "HRV"}
      [] region = "landlocked" -> {"SVK", "HUN", "CZE"}

Isqrt(n) == CHOOSE r \in 0..n : r * r <= n /\ n < (r + 1) * (r + 1)

\* a column's numbers, missing ones skipped
ColVals(rows, c) ==
    [i \in 1..Len(SelectIdx(rows, [j \in 1..Len(rows) |-> ~rows[j].val[c].nan])) |->
        SelectIdx(rows, [j \in 1..Len(rows) |-> ~rows[j].val[c].nan])[i].val[c].v]

RECURSIVE SeqSum(_)
SeqSum(xs) == IF xs = <<>> THEN 0 ELSE Head(xs) + SeqSum(Tail(xs))

\* viz.py lines 52-60
Qsum(xs) == Isqrt(SeqSum([i \in 1..Len(xs) |-> xs[i] * xs[i]]))

\* df.query("region in @grp")
QueryRegion(table, grp) ==
    Mask(table, [i \in 1..Len(table.rows) |->
                    table.rows[i].idx[LevelPos(table.names, "region")] \in grp])

\* df.query("<lvl> == @val")
QueryLevel(table, lvl, val) ==
    Mask(table, [i \in 1..Len(table.rows) |->
                    table.rows[i].idx[LevelPos(table.names, lvl)] = val])

\* FrozenList.difference
Difference(names, drop) == Pick(names, KeptPos(names, drop))

\* viz.py lines 247-249: one row per group, [idx, val] with val the sum of
\* the metric and the quadrature sums of errlo and errhi
GroupAgg(table, by) ==
    LET pos == [k \in 1..Len(by) |-> LevelPos(table.names, by[k])]
        keys == {Pick(table.rows[i].idx, pos) : i \in 1..Len(table.rows)}
    IN {[idx |-> key,
         val |-> LET rows == SelectIdx(table.rows,
                                [i \in 1..Len(table.rows) |-> Pick(table.rows[i].idx, pos) = key])
                 IN <<Num(SeqSum(ColVals(rows, 1))), Num(Qsum(ColVals(rows, 2))),
                      Num(Qsum(ColVals(rows, 3)))>>] : key \in keys}

\* viz.py lines 250-253: grpd.reindex(index=list(baselines)[, level="scenario"])
Grouped(table, by) ==
    IF Len(by) > 1
    THEN DataFrame(by, table.cols, SortTagged(by, GroupAgg(table, by)))
    ELSE DataFrame(by, table.cols,
            [k \in 1..Len(ScenarioNames) |->
                IF \E g \in GroupAgg(table, by) : g.idx = <<ScenarioNames[k]>>
                THEN CHOOSE g \in GroupAgg(table, by) : g.idx = <<ScenarioNames[k]>>
                ELSE [idx |-> <<ScenarioNames[k]>>, val |-> <<NaNNum, NaNNum, NaNNum>>]])

\* max of df[[name, "errhi"]].sum(axis=1), missing values counting as 0
MaxTop(rows) ==
    IF rows = <<>> THEN NaNNum
    ELSE Num(Max({(IF rows[i].val[1].nan THEN 0 ELSE rows[i].val[1].v)
                  + (IF rows[i].val[3].nan THEN 0 ELSE rows[i].val[3].v) : i \in 1..Len(rows)}))

\* space * max, in tenths of a unit; space is 1.7 or 1.2
Rmax(space10, rows) ==
    IF MaxTop(rows).nan THEN NaNNum ELSE Num(space10 * MaxTop(rows).v)

\* viz.py lines 259-262: islice(cycle(kdims), stackidx + 1, stackidx + 1 + len(kdims))
Kdims(names, stack) ==
    LET kdims == Difference(names, {"scenario"})
    IN IF stack # ""
       THEN [k \in 1..Len(kdims) |->
                kdims[((ListIndex(kdims, stack) + k) % Len(kdims)) + 1]]
       ELSE kdims

\* grpd.index.levels[0], sorted
FacetValues(names, rows) == SortKeys(<<names[1]>>, {<<rows[i].idx[1]>> : i \in 1..Len(rows)})

\* viz.py lines 225-234
FacetsFlat(table) ==
    [kind |-> "Facets",
     bars |-> [data |-> table.rows, vdims |-> <<table.cols[1]>>, kdims |-> <<"scenario">>,
               stacked |-> FALSE, ylim |-> Rmax(12, table.rows)],
     errs |-> <<[facet |-> <<>>, spread |-> table.rows, hline |-> table.rows[1].val[1]]>>,
     tbl |-> <<[facet |-> <<>>, data |-> table.rows]>>]

\* viz.py lines 255-291: sub is the table limited to the region group
FacetsGrouped(sub, grpd, stack) ==
    IF Len(grpd.names) = 1
    THEN AttributeError \* grpd.loc[val, name] is a number, it has no .iloc
    ELSE [kind |-> "Facets",
          bars |-> [data |-> QueryLevel(sub, "scenario", "all").rows,
                    vdims |-> <<sub.cols[1]>>,
                    kdims |-> Kdims(sub.names, stack),
                    stacked |-> stack # "",
                    ylim |-> Rmax(IF stack = "technology" THEN 17 ELSE 12, grpd.rows)],
          errs |-> [k \in 1..Len(FacetValues(grpd.names, grpd.rows)) |->
                      LET val == FacetValues(grpd.names, grpd.rows)[k][1]
                      IN [facet |-> val,
                          spread |-> QueryLevel(grpd, grpd.names[1], val).rows,
                          hline |-> QueryLevel(grpd, grpd.names[1], val).rows[1].val[1]]],
          tbl |-> [k \in 1..Len(FacetValues(grpd.names, grpd.rows)) |->
                      LET val == FacetValues(grpd.names, grpd.rows)[k][1]
                      IN [facet |-> val, data |-> QueryLevel(sub, grpd.names[1], val).rows]]]

\* viz.py lines 239-253
FacetsIn(sub, stack) == FacetsGrouped(sub, Grouped(sub, Difference(sub.names, {stack})), stack)

\* viz.py lines 196-291
Facets(table, region, stack) ==
    IF Len(table.names) = 1
    THEN FacetsFlat(table)
    ELSE IF stack # "" /\ stack \notin Range(table.names)
    THEN ValueError
    ELSE IF region # "" /\ "region" \in Range(table.names)
    THEN IF region \notin Range(RegionGroups)
         THEN KeyError
         ELSE FacetsIn(QueryRegion(table, Rgroups(region)), stack)
    ELSE FacetsIn(table, stack)

FacetsLeavesQueried(table, region, stack) ==
    IF Len(table.names) > 1 /\ region \in Range(RegionGroups) /\ "region" \in Range(table.names)
    THEN QueryRegion(table, Rgroups(region))
    ELSE table

\* The frame facets was handed, as the call leaves it: facets binds the
\* results of query, groupby and reindex to its own names (lines 241-253).
FacetsLeaves(table, region, stack) == table

\* viz.py lines 294-305
Layout(f, height) ==
    IF IsError(f) THEN f
    ELSE [kind |-> "Layout", cols |-> 2, height |-> height,
          bars |-> [element |-> f.bars, width |-> 2 * height],
          errs |-> [element |-> f.errs, width |-> height],
          tbl |-> [element |-> f.tbl, width |-> 2 * height]]

\* self._dfs[metric]
HasMetric(d, metric) == \E i \in 1..Len(d) : d[i].metric = metric
Lookup(d, metric) == d[CHOOSE i \in 1..Len(d) : d[i].metric = metric].table

\* viz.py line 332: the default of height
DefaultHeight == 400

\* viz.py lines 331-357: what plot returns
Plot(d, metric, region, stack, height) ==
    IF ~HasMetric(d, metric) THEN KeyError
    ELSE Layout(Facets(Lookup(d, metric), region, stack), height)

\* viz.py lines 356-357: what plot leaves in self._dfs
AfterPlot(d, metric, region, stack) ==
    [i \in 1..Len(d) |->
        IF d[i].metric = metric
        THEN [metric |-> metric, table |-> FacetsLeaves(d[i].table, region, stack)]
        ELSE d[i]]

M_total == <<"t","o","t","a","l">>
M_systemwide == <<"s","y","s","t","e","m","w","i","d","e">>
M_total_cost == M_total \o <<"_","c","o","s","t">>
M_energy_cap == <<"e","n","e","r","g","y","_","c","a","p">>

\* viz.py lines 323-325: plotmanager.metrics
MetricsList(d) == [i \in 1..Len(d) |-> d[i].metric]

\* viz.py lines 369-379: the plot calls write makes for one metric, in order
WriteCallsOf(metric) ==
    IF Contains(M_total, metric) \/ Contains(M_systemwide, metric)
    THEN <<[metric |-> metric, region |-> "", stack |-> ""]>>
    ELSE [k \in 1..(2 * Len(RegionGroups)) |->
            [metric |-> metric,
             region |-> RegionGroups[((k - 1) \div 2) + 1],
             stack |-> IF k % 2 = 1 THEN "region" ELSE "technology"]]

RECURSIVE WriteCalls(_)
WriteCalls(metrics) ==
    IF metrics = <<>> THEN <<>> ELSE WriteCallsOf(Head(metrics)) \o WriteCalls(Tail(metrics))

\* the number of calls write completes before one raises
RECURSIVE Completed(_, _)
Completed(d, calls) ==
    IF calls = <<>> THEN 0
    ELSE IF IsError(Plot(d, Head(calls).metric, Head(calls).region, Head(calls).stack, DefaultHeight))
    THEN 0
    ELSE 1 + Completed(AfterPlot(d, Head(calls).metric, Head(calls).region, Head(calls).stack),
                       Tail(calls))

\* self._dfs after the first n of the calls
RECURSIVE AfterCalls(_, _, _)
AfterCalls(d, calls, n) ==
    IF n = 0 \/ calls = <<>> THEN d
    ELSE AfterCalls(AfterPlot(d, Head(calls).metric, Head(calls).region, Head(calls).stack),
                    Tail(calls), n - 1)

\* f"{plotdir}/{metric}.html" and f"{plotdir}/{metric}_{region}_{stack}.html"
FileOf(plotdir, c) ==
    IF c.region = "" /\ c.stack = ""
    THEN [dir |-> plotdir, metric |-> c.metric, suffix |-> <<>>]
    ELSE [dir |-> plotdir, metric |-> c.metric, suffix |-> <<c.region, c.stack>>]

(***************************************************************************)
(* What metric_as_dfs yields: one single-column frame per metric.          *)
(***************************************************************************)
FrameNamed(metric, frame) == DataFrame(frame.names, <<metric>>, frame.rows)

PlotRuns == <<BaselineRun, <<"high", "low", 100, 100>>>>

SystemFrames ==
    {FrameNamed(M_total_cost, FrameOf([names |-> <<>>, keys |-> << <<>> >>], PlotRuns, v)) :
        v \in [1..2 -> {5, 40}]}

\* the all-baseline run first; the last two keys start at 40 there
MapValues == {[i \in 1..6 |-> IF i \in {2, 3} THEN 40 ELSE w[i]] : w \in [{1, 4, 5, 6} -> {0, 40}]}

MapFrames ==
    {FrameNamed(M_energy_cap,
                FrameOf([names |-> <<"region", "technology", "carrier">>,
                         keys |-> << <<"DNK", T_wind, "power">>, <<"DEU", T_ac_line, "power">>,
                                     <<"DEU", T_wind, "power">> >>],
                        PlotRuns, v)) :
        v \in MapValues}
    \cup
    {FrameNamed(M_energy_cap,
                FrameOf([names |-> <<"technology">>, keys |-> << <<T_wind>> >>], PlotRuns, v)) :
        v \in [1..2 -> {0, 40}]}

Datadirs == {<<a, b>> : a \in SystemFrames, b \in MapFrames} \cup {<<b>> : b \in MapFrames}

InitPlot ==
    /\ pc = "start"
    /\ idxIn = None /\ idxOut = None
    /\ df = None /\ call = None /\ ret = None
    /\ dfs = None /\ dfs0 = None /\ lastPlot = None /\ files = {}

\* viz.py lines 317-321
New ==
    /\ pc = "start"
    /\ \E frames \in Datadirs, istransmission \in BOOLEAN :
        LET tables == [i \in 1..Len(frames) |->
                          [metric |-> frames[i].cols[1],
                           table |-> Scenario_deltas(frames[i], istransmission)]]
        IN IF \E i \in 1..Len(tables) : IsError(tables[i].table)
           THEN /\ pc' = "failed"
                /\ UNCHANGED <<dfs, dfs0>>
           ELSE /\ pc' = "ready"
                /\ dfs' = tables
                /\ dfs0' = tables
    /\ UNCHANGED <<idxIn, idxOut, df, call, ret, lastPlot, files>>

\* viz.py lines 331-357
PlotCall ==
    /\ pc = "ready"
    /\ \E metric \in {M_total_cost, M_energy_cap},
          region \in {"", "west", "nordic"},
          stack \in {"", "region", "technology"} :
        /\ call' = [fn |-> "plot", metric |-> metric, region |-> region, stack |-> stack]
        /\ lastPlot' = Plot(dfs, metric, region, stack, DefaultHeight)
        /\ dfs' = AfterPlot(dfs, metric, region, stack)
    /\ UNCHANGED <<pc, idxIn, idxOut, df, ret, dfs0, files>>

\* viz.py lines 359-379
Write ==
    /\ pc = "ready"
    /\ \E plotdir \in {"plots"} :
        LET calls == WriteCalls(MetricsList(dfs))
            n == Completed(dfs, calls)
        IN /\ files' = files \cup {FileOf(plotdir, calls[k]) : k \in 1..n}
           /\ dfs' = AfterCalls(dfs, calls, IF n < Len(calls) THEN n + 1 ELSE n)
           /\ ret' = IF n < Len(calls)
                     THEN Plot(AfterCalls(dfs, calls, n), calls[n + 1].metric,
                               calls[n + 1].region, calls[n + 1].stack, DefaultHeight)
                     ELSE None
    /\ UNCHANGED <<pc, idxIn, idxOut, df, call, dfs0, lastPlot>>

NextPlot == New \/ PlotCall \/ Write

SpecPlot == InitPlot /\ [][NextPlot]_vars

(***************************************************************************)
(* Properties of Metrics.__idx__ (specification SpecIdx).                  *)
(***************************************************************************)
Accepted == idxOut.kind \in {"Index", "MultiIndex"}
Rejected == idxOut = ValueError

\* The parts a label was concatenated from.
PartsTable == [label \in Labels |-> CHOOSE ps \in PartSeqs : Join(ps) = label]
PartsOf(label) == PartsTable[label]
NPartsOf(label) == Len(PartsOf(label))
MaxPartsOf(values) == Max({NPartsOf(values[i]) : i \in 1..Len(values)})

ConcatCall == pc = "called" /\ idxIn.kind = "Index" /\ Contains(S_loc_tech, idxIn.name)

ExpectedLevels(name) == IF Contains(S_carrier, name) THEN 3 ELSE 2
ExpectedNames(name) ==
    IF Contains(S_carrier, name) THEN <<S_region, S_technology, S_carrier>>
    ELSE <<S_region, S_technology>>

\* With parts[i] the parts of label i of the input:
SplitRowsOf(parts) ==
    /\ (\A i \in 1..Len(parts) : Len(parts[i]) = ExpectedLevels(idxIn.name))
        => idxOut = MultiIndex(ExpectedNames(idxIn.name), parts)
    /\ Accepted =>
        /\ idxOut.kind = "MultiIndex"
        /\ idxOut.names = ExpectedNames(idxIn.name)
        /\ Len(idxOut.rows) = Len(parts)
        /\ \A i \in 1..Len(parts) :
             idxOut.rows[i] = PadRow(parts[i], ExpectedLevels(idxIn.name))

\* C1: a loc_tech[_carrier] index whose labels have 3 (with "carrier" in
\* the name) or 2 (without) "::"-separated parts comes out as a MultiIndex
\* named (region, technology[, carrier]), with one row per label, in the
\* input's order, row i holding the parts of label i in order.  (Whenever a
\* concatenated index is accepted, row i starts with the parts of label i
\* and is filled up with missing values.)
C1_SplitRows ==
    ConcatCall => SplitRowsOf([i \in 1..Len(idxIn.values) |-> PartsOf(idxIn.values[i])])

C1_Witness ==
    /\ ConcatCall
    /\ idxIn.name = S_loc_tech_carriers
    /\ idxIn.values = << <<"w">> \o ColonColon \o ColonColon \o <<"w">>,
                         <<"w">> \o ColonColon \o <<"w">> \o ColonColon \o <<"w">> >>
    /\ idxOut = MultiIndex(<<S_region, S_technology, S_carrier>>,
                           << << <<"w">>, <<>>, <<"w">> >>, << <<"w">>, <<"w">>, <<"w">> >> >>)

RECURSIVE IsSubseq(_, _)
IsSubseq(a, b) ==
    IF a = <<>> THEN TRUE
    ELSE IF b = <<>> THEN FALSE
    ELSE IF Head(a) = Head(b) THEN IsSubseq(Tail(a), Tail(b))
    ELSE IsSubseq(a, Tail(b))

LevelNames(idx) == IF idx.kind = "MultiIndex" THEN idx.names ELSE <<idx.name>>

\* C4: the level names of every index __idx__ returns are a subsequence of
\* (region, technology, carrier); a (carriers, techs) MultiIndex in either
\* level order comes out as (technology, carrier) with every row's
\* technology and carrier kept together; a "carriers" index comes out as
\* "carrier" with its values untouched.
C4_DefiniteOrder ==
    (pc = "called" /\ Accepted) =>
        /\ IsSubseq(LevelNames(idxOut), <<S_region, S_technology, S_carrier>>)
        /\ idxIn.kind = "MultiIndex" =>
            /\ Len(idxIn.names) = 2
            /\ idxOut.names = <<S_technology, S_carrier>>
            /\ Len(idxOut.rows) = Len(idxIn.rows)
            /\ \A r \in 1..Len(idxIn.rows) :
                 /\ idxOut.rows[r][1] = idxIn.rows[r][ListIndex(idxIn.names, S_techs) + 1]
                 /\ idxOut.rows[r][2] = idxIn.rows[r][ListIndex(idxIn.names, S_carriers) + 1]
        /\ (idxIn.kind = "Index" /\ idxIn.name = S_carriers) =>
            idxOut = Index(S_carrier, idxIn.values)

C4_Witness ==
    /\ pc = "called"
    /\ idxIn = MultiIndex(<<S_carriers, S_techs>>, << <<"power", "wind">>, <<"heat", "boiler">> >>)
    /\ idxOut = MultiIndex(<<S_technology, S_carrier>>, << <<"wind", "power">>, <<"boiler", "heat">> >>)

\* With n the number of levels the split gives:
RejectsOf(n) ==
    /\ (Contains(S_carrier, idxIn.name) /\ n # 3) => Rejected
    /\ (~Contains(S_carrier, idxIn.name) /\ n # 2) => Rejected

\* C6: a single-level index is rejected with ValueError when it is not
\* named "carriers" and its name lacks "loc_tech", when the name has
\* "carrier" and the split does not give 3 levels, and when the name lacks
\* "carrier" and the split does not give 2 levels.
C6_Rejects ==
    (pc = "called" /\ idxIn.kind = "Index") =>
        /\ (idxIn.name # S_carriers /\ ~Contains(S_loc_tech, idxIn.name)) => Rejected
        /\ Contains(S_loc_tech, idxIn.name) => RejectsOf(MaxPartsOf(idxIn.values))

C6_Witness ==
    /\ pc = "called"
    /\ idxIn.kind = "Index"
    /\ idxIn.name = S_loc_tech_carriers
    /\ MaxPartsOf(idxIn.values) = 4
    /\ Rejected

(***************************************************************************)
(* Properties of marginalise and scenario_deltas (specification SpecViz).  *)
(***************************************************************************)
Axes == {"heating", "EV", "PV", "battery"}
AxisPos(a) == CHOOSE i \in 1..4 : <<"heating", "EV", "PV", "battery">>[i] = a

\* The axes each scenario holds at their baselines.
ExpectedPinned(scenario) ==
    CASE scenario = "heating" -> {"EV", "PV", "battery"}
      [] scenario = "EV" -> {"heating", "PV", "battery"}
      [] scenario = "PV" -> {"heating", "EV", "battery"}
      [] scenario = "battery" -> {"heating", "EV", "PV"}
      [] scenario = "demand" -> {"PV", "battery"}
      [] scenario = "cost" -> {"heating", "EV"}
      [] scenario = "all" -> {}

\* The part of a row's index after the four scenario levels.
KeyOf(frame, i) == SubSeq(frame.rows[i].idx, 5, Len(frame.names))
KeysOf(frame) == {KeyOf(frame, i) : i \in 1..Len(frame.rows)}

\* The values of the rows of frame at key whose axes in pinned are at baseline.
SweepVals(frame, pinned, key) ==
    {frame.rows[i].val[1] :
        i \in {j \in 1..Len(frame.rows) :
                /\ KeyOf(frame, j) = key
                /\ \A a \in pinned : frame.rows[j].idx[AxisPos(a)] = BaselineValue(a)}}

\* The value of frame at key in the run with every axis at its baseline.
BaseVal(frame, key) == CHOOSE v \in SweepVals(frame, Axes, key) : TRUE

\* What a call returned, as a set of [key, val].
RetRows ==
    IF ret.kind = "DataFrame"
    THEN {[key |-> ret.rows[i].idx, val |-> ret.rows[i].val] : i \in 1..Len(ret.rows)}
    ELSE {[key |-> <<>>, val |-> ret.values]}

MarginaliseCalled ==
    pc = "called" /\ call.fn = "marginalise" /\ call.scenario \in Range(ScenarioNames)

\* C2: marginalise pins, for a regular scenario, the other three regular
\* axes, for demand and cost the axes baselines lists for it, for "all"
\* none, and sweeps the rest: the pinned and the swept axes are disjoint and
\* together the four regular axes; the result has none of the four scenario
\* levels, one row per remaining index row, and the band it reports,
\* [value - errlo, value + errhi], spans exactly the input values of the
\* rows whose pinned axes are at their baselines.
C2_PinsAndSweeps ==
    MarginaliseCalled =>
        /\ Range(Pins(call.scenario)) = ExpectedPinned(call.scenario)
        /\ Range(Swept(call.scenario)) = Axes \ ExpectedPinned(call.scenario)
        /\ ret.kind \in {"DataFrame", "Series"}
        /\ ret.kind = "DataFrame" =>
            /\ ret.names = SubSeq(df.names, 5, Len(df.names))
            /\ Len(ret.rows) = Cardinality(KeysOf(df))
        /\ {r.key : r \in RetRows} = KeysOf(df)
        /\ \A r \in RetRows :
            /\ r.val[1].v - r.val[2].v = Min(SweepVals(df, ExpectedPinned(call.scenario), r.key))
            /\ r.val[1].v + r.val[3].v = Max(SweepVals(df, ExpectedPinned(call.scenario), r.key))

\* heating is swept away from a baseline of 40: the EV run is pinned out
C2_Witness ==
    /\ MarginaliseCalled
    /\ call.scenario = "heating"
    /\ df.names = <<"heating", "EV", "PV", "battery", "technology">>
    /\ \E i, j, k \in 1..Len(df.rows) :
        /\ df.rows[i].idx = BaselineRun \o <<T_wind>> /\ df.rows[i].val = <<5>>
        /\ df.rows[j].idx = <<"high", "low", 100, 100, T_wind>> /\ df.rows[j].val = <<40>>
        /\ df.rows[k].idx = <<"mid", "high", 100, 100, T_wind>> /\ df.rows[k].val = <<0>>
    /\ ret.kind = "DataFrame"
    /\ ret.rows = <<[idx |-> <<T_wind>>, val |-> <<Num(5), Num(0), Num(35)>>]>>

DeltasCalled == pc = "called" /\ call.fn = "scenario_deltas"

\* C5: the table scenario_deltas returns has no heating, EV, PV, battery or
\* carrier level, has the other levels of the input followed by "scenario",
\* every scenario in it is a key of baselines, and its rows for scenario s
\* are the rows of marginalise(df, s) on the selected rows, less, when
\* marginalise returns a table, the rows whose three numbers are all within
\* 1e-8 of zero.
C5_ScenarioLevel ==
    (DeltasCalled /\ ret.kind = "DataFrame") =>
        LET used == WithoutCarrier(Selected(df, call.istransmission))
        IN /\ Range(ret.names) \cap (Axes \cup {"carrier"}) = {}
           /\ ret.names = Append(SubSeq(used.names, 5, Len(used.names)), "scenario")
           /\ \A i \in 1..Len(ret.rows) :
                ret.rows[i].idx[Len(ret.names)] \in Range(ScenarioNames)
           /\ \A i, j \in 1..Len(ret.rows) : ret.rows[i].idx = ret.rows[j].idx => i = j
           /\ \A k \in 1..Len(ScenarioNames) :
                LET m == Marginalise(used, ScenarioNames[k])
                    got == {[key |-> SubSeq(ret.rows[i].idx, 1, Len(ret.names) - 1),
                             val |-> ret.rows[i].val] :
                              i \in {j \in 1..Len(ret.rows) :
                                        ret.rows[j].idx[Len(ret.names)] = ScenarioNames[k]}}
                IN IF m.kind = "DataFrame"
                   THEN got = {[key |-> m.rows[i].idx, val |-> m.rows[i].val] :
                                 i \in {j \in 1..Len(m.rows) :
                                          \E c \in 1..3 : m.rows[j].val[c].nan
                                                          \/ Abs(m.rows[j].val[c].v) > 10}}
                   ELSE got = {[key |-> <<>>, val |-> m.values]}

\* no level but the scenarios and the carrier: one row per scenario, all kept
C5_WitnessSeries ==
    /\ DeltasCalled
    /\ df.names = <<"heating", "EV", "PV", "battery", "carrier">>
    /\ ret.kind = "DataFrame"
    /\ ret.names = <<"scenario">>
    /\ Len(ret.rows) = 7
    /\ ret.rows[1] = [idx |-> <<"heating">>, val |-> <<Num(5), Num(5), Num(0)>>]
    /\ ret.rows[3] = [idx |-> <<"PV">>, val |-> <<Num(5), Num(0), Num(35)>>]

\* the heating row is within tolerance of zero and left out, the PV row kept
C5_Witness ==
    /\ DeltasCalled
    /\ df.names = <<"heating", "EV", "PV", "battery", "technology">>
    /\ ret.kind = "DataFrame"
    /\ ret.names = <<"technology", "scenario">>
    /\ Marginalise(df, "heating").rows = <<[idx |-> <<T_wind>>, val |-> <<Num(5), Num(5), Num(0)>>]>>
    /\ \A i \in 1..Len(ret.rows) : ret.rows[i].idx # <<T_wind, "heating">>
    /\ \E i \in 1..Len(ret.rows) :
         ret.rows[i] = [idx |-> <<T_wind, "PV">>, val |-> <<Num(5), Num(0), Num(35)>>]

IsTransmission(frame, i) ==
    StartsWith(frame.rows[i].idx[LevelPos(frame.names, "technology")], T_ac_transmission)

\* The rows of frame at the positions in keep, in order.
Restrict(frame, keep) ==
    DataFrame(frame.names, frame.cols,
              SelectIdx(frame.rows, [i \in 1..Len(frame.rows) |-> i \in keep]))

\* C7: on a frame with a technology level, lvl_filter with invert=True and
\* with invert=False returns the rows without and with an "ac_transmission"
\* technology: disjoint, together all rows, each in the original order.
\* scenario_deltas(istransmission=False) computes from the former alone and
\* scenario_deltas(istransmission=True) from the latter alone, and raises
\* ValueError when the rows it is to compute from are none.
C7_Transmission ==
    (DeltasCalled /\ "technology" \in Range(df.names)) =>
        LET trans == {i \in 1..Len(df.rows) : IsTransmission(df, i)}
            other == (1..Len(df.rows)) \ trans
            chosen == IF call.istransmission THEN trans ELSE other
        IN /\ Lvl_filter(df, "technology", T_ac_transmission, TRUE, FALSE) = Restrict(df, other)
           /\ Lvl_filter(df, "technology", T_ac_transmission, FALSE, FALSE) = Restrict(df, trans)
           /\ chosen = {} => ret = ValueError
           /\ chosen # {} =>
                /\ ret.kind = "DataFrame"
                /\ ret = DeltasOf(WithoutCarrier(Restrict(df, chosen)))
                /\ \A i \in 1..Len(ret.rows) :
                     StartsWith(ret.rows[i].idx[LevelPos(ret.names, "technology")],
                                T_ac_transmission) <=> call.istransmission

\* transmission rows alone are used although other rows are there
C7_Witness ==
    /\ DeltasCalled
    /\ call.istransmission
    /\ df.names = <<"heating", "EV", "PV", "battery", "region", "technology", "carrier">>
    /\ \E i, j \in 1..Len(df.rows) :
        /\ df.rows[i].idx[6] = T_wind /\ df.rows[i].val[1] = 40
        /\ df.rows[j].idx[6] = T_ac_line /\ df.rows[j].val[1] = 40
    /\ ret.kind = "DataFrame"
    /\ ret.rows # <<>>
    /\ \A i \in 1..Len(ret.rows) : ret.rows[i].idx[2] = T_ac_line

\* nothing but transmission rows, and transmission not asked for
C7_WitnessEmpty ==
    /\ DeltasCalled
    /\ ~call.istransmission
    /\ df.names = <<"heating", "EV", "PV", "battery", "technology">>
    /\ ret = ValueError

(***************************************************************************)
(* Properties of plotmanager.                                              *)
(***************************************************************************)
Constructed == pc = "ready"

\* C8: once a plotmanager is constructed, no sequence of plot and write
\* calls changes the stored per-metric tables: they are the tables computed
\* at instantiation, the list of metrics is the one of instantiation, and
\* the last plot(metric, region, stack) is the plot of the instantiation's
\* table, however many plot or write calls came before it.
C8_TablesUnchanged ==
    Constructed =>
        /\ dfs = dfs0
        /\ MetricsList(dfs) = MetricsList(dfs0)
        /\ (call # None =>
                lastPlot = Plot(dfs0, call.metric, call.region, call.stack, DefaultHeight))

\* a plot limited to a region group that holds data, of a manager that has
\* also written files
C8_Witness ==
    /\ Constructed
    /\ files # {}
    /\ call # None
    /\ call.region # "" /\ call.stack # ""
    /\ lastPlot.kind = "Layout"
    /\ lastPlot.bars.element.data # <<>>
    /\ "region" \in Range(Lookup(dfs, call.metric).names)
    /\ Len(QueryRegion(Lookup(dfs, call.metric), Rgroups(call.region)).rows)
            < Len(Lookup(dfs, call.metric).rows)

====
